---- MODULE Spec2Model ----
(***************************************************************************)
(* Model of scripts/pr_issue_sync/pr_issue_sync.py: ProjectItemHandler.    *)
(* The GitHub side (issues, their project items, the project's fields) is   *)
(* the environment; the handler's methods are the actions.                  *)
(***************************************************************************)
EXTENDS Integers, Sequences, FiniteSets, TLC

\* ------------------------------------------------------------------------
\* Bounds and fixed inputs
\* ------------------------------------------------------------------------
\* largest number of issues a pull request closes in the model
MaxLinked == 2

\* gh_config.project_number: the project the handler is configured for
ConfiguredProject == 1

\* the projects an issue may have an item in
Projects == {1, 2}

\* Python None / a present value
None == << >>
Some(v) == <<v>>

\* the empty string as a node id (ids are triples <<kind, a, b>>)
EmptyStr == <<"", 0, 0>>

\* node ids handed out by GitHub
NodeId(n) == <<"I", 0, n>>
ItemId(p, n) == <<"PVTI", p, n>>
ProjectNodeId(p) == <<"PVT", p, 0>>

\* the six names of the Literal type of set_issue_status
SixNames ==
  <<"Selected for Development", "Weekly Backlog", "In Development",
    "Ready For Review", "On Hold", "Done">>

Range(s) == {s[i] : i \in 1..Len(s)}

\* ------------------------------------------------------------------------
\* Project field tables as returned by the fields query
\* ------------------------------------------------------------------------
\* a single-select field node with its options
Field(k, name, optNames) ==
  [empty |-> FALSE, id |-> <<"F", k, 0>>, name |-> name,
   options |-> [j \in 1..Len(optNames) |->
                  [id |-> <<"O", k, j>>, name |-> optNames[j]]]]

\* a node of another field type: the fragment selects nothing, the node is {}
EmptyNode == [empty |-> TRUE, id |-> EmptyStr, name |-> "", options |-> << >>]

FieldsFull ==
  <<EmptyNode, Field(2, "Priority", <<"High", "Low">>), Field(3, "Status", SixNames)>>
FieldsExtra == <<Field(1, "Status", SixNames \o <<"Blocked">>)>>
FieldsNoDone ==
  <<Field(1, "Status",
          <<"Selected for Development", "In Development", "Ready For Review">>)>>
FieldsNoStatus == <<EmptyNode, Field(2, "Priority", <<"Done", "Blocked">>)>>

VARIABLES
  issueState,      \* GitHub: issue number -> "open" | "closed"
  issueAssignees,  \* GitHub: issue number -> set of logins
  issueItems,      \* GitHub: issue number -> projects of its items, in query order
  itemStatus,      \* GitHub: <<project, issue>> -> Status option name of that item
  projectFields,   \* GitHub: field nodes of the configured project
  pr,              \* GitHub: the pull request snapshot
  linked,          \* GitHub: numbers of the issues the pull request closes
  fieldsCached,    \* lru_cache of get_project_fields is populated
  pc,              \* position of sync_issue_status_with_pr
  idx,             \* index in linked_issues of the issue being processed
  gh_issues,       \* issue objects fetched upfront: number -> [state, assignees]
  pr_assignees,    \* target assignee list
  raised,          \* exception that left sync_issue_status_with_pr, or "none"
  closeCalls,      \* issue number -> number of edit(state="closed") calls
  removeCalls,     \* issue number -> None | Some(logins asked to be removed)
  assignCalls,     \* issue number -> None | Some(logins asked to be assigned)
  caught,          \* issues whose (un)assign exception was caught and printed
  statusCalls,     \* issue number -> None | Some(status passed to set_issue_status)
  last             \* observation of the most recent set_issue_status call

world == <<issueState, issueAssignees, issueItems, projectFields, pr, linked>>
logs == <<closeCalls, removeCalls, assignCalls, caught, statusCalls>>
vars == <<issueState, issueAssignees, issueItems, itemStatus, projectFields, pr,
          linked, fieldsCached, pc, idx, gh_issues, pr_assignees, raised,
          closeCalls, removeCalls, assignCalls, caught, statusCalls, last>>

\* ------------------------------------------------------------------------
\* Python truthiness of the two optional arguments
\* ------------------------------------------------------------------------
TruthyNumber(o) == o # None /\ o[1] # 0
TruthyString(o) == o # None /\ o[1] # EmptyStr

\* ------------------------------------------------------------------------
\* get_project_fields: list(filter(bool, nodes))
\* ------------------------------------------------------------------------
get_project_fields == SelectSeq(projectFields, LAMBDA f : ~f.empty)

\* inner loop of get_status_field_id: first option with the requested name
RECURSIVE FindOption(_, _, _)
FindOption(options, field_name, j) ==
  IF j > Len(options) THEN None
  ELSE IF options[j].name = field_name THEN Some(options[j].id)
  ELSE FindOption(options, field_name, j + 1)

\* outer loop of get_status_field_id over the fields, carrying
\* (field_id, option_id)
RECURSIVE ScanFields(_, _, _, _, _)
ScanFields(fields, field_name, k, field_id, option_id) ==
  IF k > Len(fields) THEN <<field_id, option_id>>
  ELSE IF fields[k].name # "Status"
       THEN ScanFields(fields, field_name, k + 1, field_id, option_id)
  ELSE LET found == FindOption(fields[k].options, field_name, 1)
       IN ScanFields(fields, field_name, k + 1, Some(fields[k].id),
                     IF found # None THEN found ELSE option_id)

\* variant that raises only when the field is missing (if not field_id)
get_status_field_id_FieldOnly(field_name) ==
  LET r == ScanFields(get_project_fields, field_name, 1, None, None)
  IN IF r[1] = None THEN None
     ELSE Some(<<r[1][1], IF r[2] = None THEN EmptyStr ELSE r[2][1]>>)

\* get_status_field_id: None when it raises ValueError ("Field ... not found",
\* reported as NotFound), else Some(<<field, option>>)
get_status_field_id(field_name) ==
  LET r == ScanFields(get_project_fields, field_name, 1, None, None)
  IN IF r[1] = None \/ r[2] = None THEN None ELSE Some(<<r[1][1], r[2][1]>>)

\* ------------------------------------------------------------------------
\* get_issue_info: ids of the issue's project items, in the order returned
\* ------------------------------------------------------------------------
IssueOfNode(node_id) ==
  IF \E n \in DOMAIN issueState : NodeId(n) = node_id
  THEN Some(CHOOSE n \in DOMAIN issueState : NodeId(n) = node_id)
  ELSE None

get_issue_info(node_id) ==
  LET n == IssueOfNode(node_id)[1]
  IN [k \in 1..Len(issueItems[n]) |-> ItemId(issueItems[n][k], n)]

\* variables of the updateProjectV2ItemFieldValue mutation
MutationVars(item_id, field_id, option_id) ==
  [projectId |-> ProjectNodeId(ConfiguredProject), itemId |-> item_id,
   fieldId |-> field_id, optionId |-> option_id]

\* ------------------------------------------------------------------------
\* set_issue_status(status, issue_number, issue_node_id).
\* fail names the network call that answers with an error, if it is reached.
\* The result records the exception, the network calls made and the mutation.
\* ------------------------------------------------------------------------
Result(exc, rest, gql, mutation, cached) ==
  [raised |-> exc, rest |-> rest, gql |-> gql, mutation |-> mutation,
   cached |-> cached]

\* lines 62-63: resolve the field and option, then send the mutation
ResolveAndSet(status, issue_id, rest, gql, fail) ==
  IF ~fieldsCached /\ fail = "fields"
  THEN Result("APIError", rest, gql + 1, None, FALSE)
  ELSE LET gql2 == IF fieldsCached THEN gql ELSE gql + 1
           ids == get_status_field_id(status)
       IN IF ids = None
          THEN Result("NotFound", rest, gql2, None, TRUE)
          ELSE Result(IF fail = "mutation" THEN "APIError" ELSE "none",
                      rest, gql2,
                      Some(MutationVars(issue_id, ids[1][1], ids[1][2])), TRUE)

set_issue_status(status, issue_number, issue_node_id, fail) ==
  IF ~TruthyNumber(issue_number) /\ ~TruthyString(issue_node_id)
  THEN Result("ValueError", 0, 0, None, fieldsCached)
  ELSE IF TruthyNumber(issue_number) /\ TruthyString(issue_node_id)
  THEN Result("ValueError", 0, 0, None, fieldsCached)
  ELSE IF issue_number # None
  THEN IF fail = "rest" \/ issue_number[1] \notin DOMAIN issueState
       THEN Result("RestError", 1, 0, None, fieldsCached)
       ELSE IF fail = "info"
       THEN Result("APIError", 1, 1, None, fieldsCached)
       ELSE LET items == get_issue_info(NodeId(issue_number[1]))
            IN IF Len(items) = 0
               THEN Result("IndexError", 1, 1, None, fieldsCached)
               ELSE ResolveAndSet(status, items[1], 1, 1, fail)
  ELSE ResolveAndSet(status, issue_node_id[1], 0, 0, fail)

\* ------------------------------------------------------------------------
\* GitHub's side of the mutation: the field value is written when itemId is
\* an item of the project named by projectId; otherwise the response carries
\* an "errors" member with status 200, which run_graphql returns unexamined.
\* ------------------------------------------------------------------------
OptionName(field_id, option_id) ==
  LET f == CHOOSE g \in Range(projectFields) : g.id = field_id
      o == CHOOSE q \in Range(f.options) : q.id = option_id
  IN o.name

ValidOption(field_id, option_id) ==
  \E g \in Range(projectFields) :
    g.id = field_id /\ \E q \in Range(g.options) : q.id = option_id

MutationTarget(m) ==
  IF \E n \in DOMAIN issueState :
       /\ m.itemId = ItemId(ConfiguredProject, n)
       /\ ConfiguredProject \in Range(issueItems[n])
       /\ m.projectId = ProjectNodeId(ConfiguredProject)
       /\ ValidOption(m.fieldId, m.optionId)
  THEN Some(CHOOSE n \in DOMAIN issueState : m.itemId = ItemId(ConfiguredProject, n))
  ELSE None

ServerItemStatus(r) ==
  IF r.raised = "none" /\ r.mutation # None /\ MutationTarget(r.mutation[1]) # None
  THEN [itemStatus EXCEPT ![<<ConfiguredProject, MutationTarget(r.mutation[1])[1]>>] =
          OptionName(r.mutation[1].fieldId, r.mutation[1].optionId)]
  ELSE itemStatus

\* what one set_issue_status call leaves behind
Observe(status, issue_number, issue_node_id, r) ==
  [called |-> TRUE, status |-> status, issue_number |-> issue_number,
   issue_node_id |-> issue_node_id, raised |-> r.raised, rest |-> r.rest,
   gql |-> r.gql, mutation |-> r.mutation]

NoCall ==
  [called |-> FALSE, status |-> "", issue_number |-> None, issue_node_id |-> None,
   raised |-> "none", rest |-> 0, gql |-> 0, mutation |-> None]

Failures == {"none", "rest", "info", "fields", "mutation"}

\* ------------------------------------------------------------------------
\* sync_issue_status_with_pr
\* ------------------------------------------------------------------------
\* lines 325, 338, 358-360: status the linked issues are moved to
TargetStatus ==
  IF pr.merged THEN "Done"
  ELSE IF pr.state = "closed" THEN "Selected for Development"
  ELSE IF pr.draft THEN "In Development" ELSE "Ready For Review"

\* lines 310-315
PrAssignees == IF pr.assignees = {} THEN {pr.user} ELSE pr.assignees

Current == linked[idx]

\* lines 303-320: fetch the pull request, its linked issues and the issue objects
Fetch ==
  /\ pc = "start"
  /\ \E ok \in BOOLEAN :
       IF ok
       THEN /\ pr_assignees' = PrAssignees
            /\ gh_issues' = [n \in Range(linked) |->
                               [state |-> issueState[n], assignees |-> issueAssignees[n]]]
            /\ idx' = 1
            /\ pc' = IF Len(linked) = 0 THEN "done" ELSE "side"
            /\ UNCHANGED raised
       ELSE /\ pc' = "aborted"
            /\ raised' = "fetch"
            /\ UNCHANGED <<pr_assignees, gh_issues, idx>>
  /\ UNCHANGED <<world, itemStatus, fieldsCached, logs, last>>

\* lines 325-334: merged pull request, close the issue if it is still open
CloseIssue ==
  /\ pc = "side" /\ pr.merged
  /\ IF gh_issues[Current].state = "open"
     THEN \E ok \in BOOLEAN :
            /\ closeCalls' = [closeCalls EXCEPT ![Current] = @ + 1]
            /\ IF ok
               THEN /\ issueState' = [issueState EXCEPT ![Current] = "closed"]
                    /\ pc' = "status"
                    /\ UNCHANGED raised
               ELSE /\ pc' = "aborted"
                    /\ raised' = "close"
                    /\ UNCHANGED issueState
     ELSE /\ pc' = "status"
          /\ UNCHANGED <<closeCalls, issueState, raised>>
  /\ UNCHANGED <<issueAssignees, issueItems, itemStatus, projectFields, pr, linked,
                 fieldsCached, idx, gh_issues, pr_assignees, removeCalls,
                 assignCalls, caught, statusCalls, last>>

\* lines 338-353: closed without merging, remove all assignees, catching failures
RemoveAssignees ==
  /\ pc = "side" /\ ~pr.merged /\ pr.state = "closed"
  /\ IF gh_issues[Current].assignees # {}
     THEN \E ok \in BOOLEAN :
            /\ removeCalls' = [removeCalls EXCEPT ![Current] =
                                 Some(gh_issues[Current].assignees)]
            /\ IF ok
               THEN /\ issueAssignees' = [issueAssignees EXCEPT ![Current] =
                                            @ \ gh_issues[Current].assignees]
                    /\ UNCHANGED caught
               ELSE /\ caught' = caught \cup {Current}
                    /\ UNCHANGED issueAssignees
     ELSE UNCHANGED <<removeCalls, issueAssignees, caught>>
  /\ pc' = "status"
  /\ UNCHANGED <<issueState, issueItems, itemStatus, projectFields, pr, linked,
                 fieldsCached, idx, gh_issues, pr_assignees, raised, closeCalls,
                 assignCalls, statusCalls, last>>

\* variant of AssignIssue without the try/except around edit(assignees=...)
AssignIssueNoCatch ==
  /\ pc = "side" /\ ~pr.merged /\ pr.state # "closed"
  /\ IF gh_issues[Current].assignees # pr_assignees
     THEN \E ok \in BOOLEAN :
            /\ assignCalls' = [assignCalls EXCEPT ![Current] = Some(pr_assignees)]
            /\ IF ok
               THEN /\ issueAssignees' = [issueAssignees EXCEPT ![Current] = pr_assignees]
                    /\ pc' = "status"
                    /\ UNCHANGED raised
               ELSE /\ pc' = "aborted"
                    /\ raised' = "assign"
                    /\ UNCHANGED issueAssignees
     ELSE /\ pc' = "status"
          /\ UNCHANGED <<assignCalls, issueAssignees, raised>>
  /\ UNCHANGED <<issueState, issueItems, itemStatus, projectFields, pr, linked,
                 fieldsCached, idx, gh_issues, pr_assignees, closeCalls,
                 removeCalls, caught, statusCalls, last>>

\* lines 358-371: open pull request, replace the assignees, catching failures
AssignIssue ==
  /\ pc = "side" /\ ~pr.merged /\ pr.state # "closed"
  /\ IF gh_issues[Current].assignees # pr_assignees
     THEN \E ok \in BOOLEAN :
            /\ assignCalls' = [assignCalls EXCEPT ![Current] = Some(pr_assignees)]
            /\ IF ok
               THEN /\ issueAssignees' = [issueAssignees EXCEPT ![Current] = pr_assignees]
                    /\ UNCHANGED caught
               ELSE /\ caught' = caught \cup {Current}
                    /\ UNCHANGED issueAssignees
     ELSE UNCHANGED <<assignCalls, issueAssignees, caught>>
  /\ pc' = "status"
  /\ UNCHANGED <<issueState, issueItems, itemStatus, projectFields, pr, linked,
                 fieldsCached, idx, gh_issues, pr_assignees, raised, closeCalls,
                 removeCalls, statusCalls, last>>

\* lines 336, 354-356, 372: set_issue_status(issue_number=..., status=target);
\* an exception is not caught and ends the run
SetStatus ==
  /\ pc = "status"
  /\ \E fail \in Failures :
       LET r == set_issue_status(TargetStatus, Some(Current), None, fail)
       IN /\ last' = Observe(TargetStatus, Some(Current), None, r)
          /\ itemStatus' = ServerItemStatus(r)
          /\ fieldsCached' = r.cached
          /\ statusCalls' = [statusCalls EXCEPT ![Current] = Some(TargetStatus)]
          /\ IF r.raised = "none"
             THEN /\ idx' = idx + 1
                  /\ pc' = IF idx = Len(linked) THEN "done" ELSE "side"
                  /\ UNCHANGED raised
             ELSE /\ pc' = "aborted"
                  /\ raised' = "status"
                  /\ UNCHANGED idx
  /\ UNCHANGED <<world, gh_issues, pr_assignees, closeCalls, removeCalls,
                 assignCalls, caught>>

\* ------------------------------------------------------------------------
\* Initial states of a run of main(): any pull request, any linked issues
\* ------------------------------------------------------------------------
PrSnapshots ==
  [merged : BOOLEAN, state : {"open", "closed"}, draft : BOOLEAN,
   assignees : {{}, {"alice"}, {"alice", "bob"}}, user : {"bob"}]

ItemOrders == {<< >>, <<1>>, <<1, 2>>, <<2, 1>>}

Init ==
  /\ \E n \in 0..MaxLinked :
       /\ linked = [k \in 1..n |-> k]
       /\ issueState \in [1..n -> {"open", "closed"}]
       /\ issueAssignees \in [1..n -> {{}, {"alice"}}]
       /\ issueItems \in [1..n -> ItemOrders]
       /\ itemStatus = [i \in Projects \X (1..n) |-> "No Status"]
       /\ closeCalls = [k \in 1..n |-> 0]
       /\ removeCalls = [k \in 1..n |-> None]
       /\ assignCalls = [k \in 1..n |-> None]
       /\ statusCalls = [k \in 1..n |-> None]
  /\ projectFields \in {FieldsFull, FieldsNoDone}
  /\ pr \in PrSnapshots
  /\ fieldsCached = FALSE
  /\ pc = "start"
  /\ idx = 0
  /\ gh_issues = << >>
  /\ pr_assignees = {}
  /\ raised = "none"
  /\ caught = {}
  /\ last = NoCall

Next == Fetch \/ CloseIssue \/ RemoveAssignees \/ AssignIssue \/ SetStatus

Spec == Init /\ [][Next]_vars

\* ------------------------------------------------------------------------
\* Direct calls of set_issue_status on a handler for one existing issue
\* ------------------------------------------------------------------------
StatusInputs ==
  {"Done", "In Development", "Blocked", "Status That Does Not Exist"}
NumberInputs == {None, Some(0), Some(1), Some(2)}
NodeIdInputs == {None, Some(EmptyStr), Some(NodeId(1))}

CallSetIssueStatus ==
  /\ pc = "idle"
  /\ \E status \in StatusInputs, issue_number \in NumberInputs,
        issue_node_id \in NodeIdInputs, fail \in Failures :
       LET r == set_issue_status(status, issue_number, issue_node_id, fail)
       IN /\ last' = Observe(status, issue_number, issue_node_id, r)
          /\ itemStatus' = ServerItemStatus(r)
          /\ fieldsCached' = r.cached
  /\ UNCHANGED <<world, pc, idx, gh_issues, pr_assignees, raised, logs>>

InitSet ==
  /\ linked = << >>
  /\ issueState \in [1..1 -> {"open", "closed"}]
  /\ issueAssignees = [k \in 1..1 |-> {}]
  /\ issueItems \in [1..1 -> ItemOrders \cup {<<2>>}]
  /\ itemStatus = [i \in Projects \X (1..1) |-> "No Status"]
  /\ closeCalls = << >> /\ removeCalls = << >>
  /\ assignCalls = << >> /\ statusCalls = << >>
  /\ projectFields \in {FieldsFull, FieldsExtra, FieldsNoDone, FieldsNoStatus}
  /\ pr \in {[merged |-> FALSE, state |-> "open", draft |-> FALSE,
              assignees |-> {}, user |-> "bob"]}
  /\ fieldsCached = FALSE
  /\ pc = "idle"
  /\ idx = 0
  /\ gh_issues = << >>
  /\ pr_assignees = {}
  /\ raised = "none"
  /\ caught = {}
  /\ last = NoCall

NextSet == CallSetIssueStatus

SpecSet == InitSet /\ [][NextSet]_vars

\* ------------------------------------------------------------------------
\* Properties of sync_issue_status_with_pr (specification Spec)
\* ------------------------------------------------------------------------
ProjectStatus(n) == itemStatus[<<ConfiguredProject, n>>]

\* C1: a completed run on a merged pull request leaves every linked issue
\* closed and with project status "Done"; an issue that was open got one close
\* call, a closed one none, and no assignee was changed.
C1_MergedLeavesClosedAndDone ==
  (pc = "done" /\ pr.merged) =>
    \A n \in Range(linked) :
      /\ issueState[n] = "closed"
      /\ ProjectStatus(n) = "Done"
      /\ closeCalls[n] = IF gh_issues[n].state = "open" THEN 1 ELSE 0
      /\ issueAssignees[n] = gh_issues[n].assignees
      /\ removeCalls[n] = None /\ assignCalls[n] = None

\* C2: a completed run on a pull request closed without merging sets every
\* linked issue's project status to "Selected for Development", asks for the
\* removal of all assignees of every issue that has any, and closes nothing.
C2_ClosedResetsAndClears ==
  (pc = "done" /\ ~pr.merged /\ pr.state = "closed") =>
    \A n \in Range(linked) :
      /\ ProjectStatus(n) = "Selected for Development"
      /\ removeCalls[n] = IF gh_issues[n].assignees # {}
                          THEN Some(gh_issues[n].assignees) ELSE None
      /\ closeCalls[n] = 0
      /\ issueState[n] = gh_issues[n].state

\* C3: a completed run on an open pull request sets every linked issue's
\* project status to "In Development" iff draft, else "Ready For Review"; the
\* target assignees are the PR's assignees, or the author when there are none;
\* an issue whose assignees differ gets one assign call with the target set,
\* an issue whose assignees already equal it gets none.
C3_OpenSetsStatusAndAssigns ==
  (pc = "done" /\ ~pr.merged /\ pr.state = "open") =>
    \A n \in Range(linked) :
      /\ ProjectStatus(n) = IF pr.draft THEN "In Development" ELSE "Ready For Review"
      /\ pr_assignees = IF pr.assignees # {} THEN pr.assignees ELSE {pr.user}
      /\ assignCalls[n] = IF gh_issues[n].assignees # pr_assignees
                          THEN Some(pr_assignees) ELSE None
      /\ (assignCalls[n] # None /\ n \notin caught => issueAssignees[n] = pr_assignees)

\* C4: an exception of the assignee-removal or of the assign call is caught:
\* it never leaves the run, the status-set of the same issue is performed
\* next with the mapped status, and the run goes on to the remaining issues
\* (it can only end early through the status-set call itself).
C4_AssigneeFailureIsCaught ==
  /\ raised \notin {"assign", "unassign"}
  /\ \A k \in 1..Len(linked) :
       linked[k] \in caught =>
         /\ idx >= k
         /\ (idx = k /\ pc \notin {"done"}) =>
              \/ pc = "status" /\ raised = "none"
              \/ /\ pc = "aborted" /\ raised = "status"
                 /\ statusCalls[linked[k]] = Some(TargetStatus)
         /\ (idx > k \/ pc = "done") => statusCalls[linked[k]] = Some(TargetStatus)
  /\ (caught # {} /\ pc = "done") =>
       \A n \in Range(linked) : statusCalls[n] = Some(TargetStatus)

C4_Witness ==
  /\ pc = "done" /\ Len(linked) >= 2
  /\ linked[1] \in caught
  /\ assignCalls[linked[1]] # None
  /\ \A n \in Range(linked) : statusCalls[n] = Some(TargetStatus)

\* C5: an exception of the close call of a merged-PR run is caught and does
\* not end the run.
C5_CloseFailureIsCaught == ~(pc = "aborted" /\ raised = "close")

\* ------------------------------------------------------------------------
\* Properties of set_issue_status (specification SpecSet)
\* ------------------------------------------------------------------------
StatusOptionExists(status) ==
  \E f \in Range(projectFields) :
    ~f.empty /\ f.name = "Status" /\ \E o \in Range(f.options) : o.name = status

\* C6: when the requested name is not an option of the field named "Status"
\* (or there is no such field) the call fails and sends no mutation; when it
\* got as far as the lookup, the failure is the not-found error.
C6_UnknownStatusSendsNoMutation ==
  (last.called /\ ~StatusOptionExists(last.status)) =>
    /\ last.mutation = None
    /\ last.raised \in {"NotFound", "ValueError", "RestError", "APIError", "IndexError"}

C6_Witness ==
  /\ last.called /\ last.raised = "NotFound"
  /\ last.status = "Status That Does Not Exist"
  /\ last.issue_number = Some(1)
  /\ \E f \in Range(projectFields) : f.name = "Status"

\* C7: a call that supplies both issue_number and issue_node_id, and a call
\* that supplies neither, fails with the validation error before any network
\* call.
C7_ExactlyOneIdentifier ==
  (last.called /\ ((last.issue_number # None) <=> (last.issue_node_id # None))) =>
    /\ last.raised = "ValueError"
    /\ last.rest = 0 /\ last.gql = 0 /\ last.mutation = None

\* C8: a status name outside the six recognized names is rejected and writes
\* no field value, whatever the options of the project's Status field.
C8_OnlySixNames ==
  (last.called /\ last.status \notin Range(SixNames)) =>
    last.raised # "none" /\ last.mutation = None

\* C9: the item a status-set by issue number writes is the issue's item in
\* the configured project, the project sent as projectId.
C9_ItemOfConfiguredProject ==
  (last.called /\ last.issue_number # None /\ last.mutation # None) =>
    /\ last.mutation[1].projectId = ProjectNodeId(ConfiguredProject)
    /\ last.mutation[1].itemId = ItemId(ConfiguredProject, last.issue_number[1])

\* C10: a call by issue_node_id sends the mutation for the same project item
\* as the call by issue_number for the same issue and status.
C10_NodeIdSameItemAsNumber ==
  \A n \in DOMAIN issueState :
    (/\ last.called /\ last.issue_number = None
     /\ last.issue_node_id = Some(NodeId(n)) /\ last.mutation # None) =>
      LET byNumber == set_issue_status(last.status, Some(n), None, "none")
      IN byNumber.mutation # None =>
           last.mutation[1].itemId = byNumber.mutation[1].itemId

====
